---- MODULE Spec2Model ----
(***************************************************************************)
(* Agent-X, the single-device social deduction word game of                *)
(* src/views/game.rs: the screens of the Game component, the signals they  *)
(* share, the handlers of their buttons and inputs, the card generator,    *)
(* and the session persistence in the browser's localStorage.              *)
(*                                                                         *)
(* Indices are 0-based as in the source (usize); element i of a Vec is     *)
(* element i + 1 of the sequence that models it.  A text is a sequence of  *)
(* one-character strings, so that parsing and trimming work on characters. *)
(***************************************************************************)
EXTENDS Integers, Sequences, FiniteSets, TLC

VARIABLES
    game_screen,          \* Signal<GameScreen>
    players,              \* Signal<Vec<Player>>
    player_count_input,   \* Signal<String>
    player_names,         \* Signal<Vec<String>>
    round_number,         \* Signal<i32>
    cards,                \* Signal<Vec<GameCard>>
    imposter_index,       \* Signal<usize>
    card_revealed,        \* CardViewScreen's local Signal<bool>
    effect_pending,       \* CardViewScreen's use_effect is queued and has not run yet
    panicked,             \* a handler or a render indexed a Vec out of range
    session_id,           \* Signal<String>
    initialized,          \* Signal<bool>
    init_pending,         \* Game's first use_effect is queued and has not run yet
    save_pending,         \* Game's auto-save use_effect is queued and has not run yet
    storage_ok,           \* window().local_storage() yields a Storage
    ls_session_id,        \* localStorage item "agent_x_session_id"
    ls_games              \* localStorage items "agent_x_game_{session id}"

\* the signals of the game and the state of its screens
gvars == <<game_screen, players, player_count_input, player_names, round_number,
           cards, imposter_index, card_revealed, effect_pending, panicked>>

\* the session, its effects and the storage
pvars == <<session_id, initialized, init_pending, save_pending, storage_ok,
           ls_session_id, ls_games>>

vars == <<game_screen, players, player_count_input, player_names, round_number,
          cards, imposter_index, card_revealed, effect_pending, panicked,
          session_id, initialized, init_pending, save_pending, storage_ok,
          ls_session_id, ls_games>>

----------------------------------------------------------------------------
(* Bounds of the model *)

\* round_number is capped: no handler raises it above MaxRound
MaxRound == 2

\* the texts typed in the player-count input
CountTexts == { <<"3">>, <<"4">>, <<"1">>, <<"a", "b", "c">> }

\* the texts typed in the name input of slot i (0-based)
SlotName(i) == <<<<"A">>, <<"B">>, <<"C">>, <<"D">>, <<"E">>, <<"F">>,
                 <<"G">>, <<"H">>, <<"I">>, <<"J">>, <<"K">>, <<"L">>>>[i + 1]
NameTexts(i) == { <<>>, <<" ">>, SlotName(i) }

\* the 8-byte buffers getrandom fills for the word pair and for the imposter
\* seat (all zero also when getrandom fails)
WordBufs == { <<0, 0, 0, 0, 0, 0, 0, 0>>,
              <<255, 255, 255, 255, 255, 255, 255, 255>> }
ImposterBufs == { <<0, 0, 0, 0, 0, 0, 0, 0>>,
                  <<1, 0, 0, 0, 0, 0, 0, 0>>,
                  <<2, 0, 0, 0, 1, 0, 0, 0>>,
                  <<255, 255, 255, 255, 255, 255, 255, 255>> }

\* the ids Uuid::new_v4().to_string() can return
SessionIds == { "id-1", "id-2" }

----------------------------------------------------------------------------
(* Option<T> *)

None == <<>>
Some(x) == <<x>>

----------------------------------------------------------------------------
(* GameScreen *)

Setup == [kind |-> "Setup"]
CardView(i) == [kind |-> "CardView", current_player_index |-> i]
Voting == [kind |-> "Voting"]
Elimination(k, w) == [kind |-> "Elimination", eliminated_index |-> k, was_imposter |-> w]
RoundEnd(f, o) == [kind |-> "RoundEnd", imposter_found |-> f, game_over |-> o]
GameScore == [kind |-> "GameScore"]

Player(n, s, e) == [name |-> n, score |-> s, is_eliminated |-> e]
GameCard(t, w) == [card_type |-> t, word |-> w]

----------------------------------------------------------------------------
(* Text helpers: str::trim, str::parse::<usize> *)

Digits == <<"0", "1", "2", "3", "4", "5", "6", "7", "8", "9">>
IsDigit(c) == \E d \in 1..10 : Digits[d] = c
DigitValue(c) == (CHOOSE d \in 1..10 : Digits[d] = c) - 1

\* char::is_whitespace, on the characters the model types
IsWhitespace(c) == c \in {" ", "\t", "\n"}

\* n.trim().is_empty(): a text is blank when every character is whitespace
TrimIsEmpty(text) == \A j \in 1..Len(text) : IsWhitespace(text[j])

\* usize::from_str: "" is an error, one leading "+" is accepted, "-" is not a
\* digit of an unsigned type, every other character must be a decimal digit,
\* and a value above usize::MAX is an error.  ParseErr stands for Err(_).
ParseErr == -1

\* usize::MAX of the wasm32 build (the build whose persistence code is
\* compiled in), as decimal digits: 4294967295
UsizeMaxDigits == <<4, 2, 9, 4, 9, 6, 7, 2, 9, 5>>

RECURSIVE StripZeros(_)
StripZeros(ds) ==
    IF Len(ds) > 1 /\ ds[1] = "0" THEN StripZeros(Tail(ds)) ELSE ds

RECURSIVE DigitsAbove(_, _)
\* the digit text ds (as long as lim) denotes a number greater than lim
DigitsAbove(ds, lim) ==
    IF ds = <<>> THEN FALSE
    ELSE IF DigitValue(ds[1]) # lim[1] THEN DigitValue(ds[1]) > lim[1]
    ELSE DigitsAbove(Tail(ds), Tail(lim))

Overflows(ds) ==
    LET sig == StripZeros(ds)
    IN  \/ Len(sig) > Len(UsizeMaxDigits)
        \/ Len(sig) = Len(UsizeMaxDigits) /\ DigitsAbove(sig, UsizeMaxDigits)

\* the parsed values are only read through .max(3).min(10); the model keeps
\* them exact up to ValueCap and saturates above it
ValueCap == 1000

RECURSIVE DigitsValue(_, _)
DigitsValue(ds, acc) ==
    IF ds = <<>> THEN acc
    ELSE LET v == acc * 10 + DigitValue(ds[1])
         IN  DigitsValue(Tail(ds), IF v > ValueCap THEN ValueCap ELSE v)

\* ParseUsize that saturates instead of failing on a value above usize::MAX
ParseUsizeSaturating(text) ==
    LET ds == IF text # <<>> /\ text[1] = "+" THEN Tail(text) ELSE text
    IN  IF ds = <<>> THEN ParseErr
        ELSE IF \E j \in 1..Len(ds) : ~IsDigit(ds[j]) THEN ParseErr
        ELSE DigitsValue(ds, 0)

ParseUsize(text) ==
    LET ds == IF text # <<>> /\ text[1] = "+" THEN Tail(text) ELSE text
    IN  IF ds = <<>> THEN ParseErr
        ELSE IF \E j \in 1..Len(ds) : ~IsDigit(ds[j]) THEN ParseErr
        ELSE IF Overflows(ds) THEN ParseErr
        ELSE DigitsValue(ds, 0)

MinPlayers == 3
MaxPlayers == 10
DefaultPlayers == 3

Max2(a, b) == IF a >= b THEN a ELSE b
Min2(a, b) == IF a <= b THEN a ELSE b

\* PlayerCount without .max(3)
PlayerCountNoFloor(text) ==
    LET p == ParseUsize(text)
    IN  Min2(IF p = ParseErr THEN DefaultPlayers ELSE p, MaxPlayers)

\* player_count_input().parse::<usize>().unwrap_or(3).max(3).min(10)
PlayerCount(text) ==
    LET p == ParseUsize(text)
    IN  Min2(Max2(IF p = ParseErr THEN DefaultPlayers ELSE p, MinPlayers), MaxPlayers)

\* SetupScreen's render: player_names is truncated or padded with empty
\* strings to player_count slots
ResizeNames(names, count) ==
    IF Len(names) # count
    THEN [j \in 1..count |-> IF j <= Len(names) THEN names[j] ELSE <<>>]
    ELSE names

\* AllNamesValid without .trim()
AllNamesNonEmpty(names) == \A j \in 1..Len(names) : names[j] # <<>>

\* names.iter().all(|n| !n.trim().is_empty())
AllNamesValid(names) == \A j \in 1..Len(names) : ~TrimIsEmpty(names[j])

----------------------------------------------------------------------------
(* generate_cards *)

\* (civilian word, imposter word)
word_pairs == <<
    <<"Coffee", "Tea">>, <<"Cat", "Dog">>, <<"Sun", "Moon">>,
    <<"Ocean", "Sea">>, <<"Mountain", "Hill">>, <<"River", "Stream">>,
    <<"Book", "Magazine">>, <<"Car", "Truck">>, <<"Pizza", "Burger">>,
    <<"Apple", "Orange">>, <<"Winter", "Autumn">>, <<"Guitar", "Piano">>,
    <<"Soccer", "Basketball">>, <<"Movie", "TV Show">>, <<"Rain", "Snow">>,
    <<"Lion", "Tiger">>, <<"Hotel", "Motel">>, <<"Ship", "Boat">>,
    <<"Forest", "Jungle">>, <<"Lake", "Pond">>, <<"Bread", "Toast">>,
    <<"Juice", "Smoothie">>, <<"Doctor", "Nurse">>, <<"Teacher", "Professor">>,
    <<"Phone", "Tablet">>, <<"Laptop", "Desktop">>, <<"Watch", "Clock">>,
    <<"Shirt", "Blouse">>, <<"Shoes", "Boots">>, <<"Hat", "Cap">>,
    <<"Painting", "Drawing">>, <<"Park", "Garden">>, <<"Airport", "Station">>,
    <<"Restaurant", "Cafe">>, <<"Mall", "Market">>, <<"Beach", "Shore">>,
    <<"Valley", "Canyon">>, <<"Cloud", "Mist">>, <<"Thunder", "Lightning">>,
    <<"Sunrise", "Sunset">>, <<"Spring", "Summer">>, <<"Breakfast", "Brunch">>,
    <<"Dinner", "Supper">>, <<"Pen", "Pencil">>, <<"Paper", "Notebook">>,
    <<"Email", "Letter">>, <<"Photo", "Picture">>, <<"Song", "Music">>,
    <<"Dance", "Ballet">>, <<"Running", "Jogging">>, <<"Swimming", "Diving">>,
    <<"Bicycle", "Motorcycle">>, <<"Bus", "Train">>, <<"Plane", "Helicopter">>,
    <<"Rocket", "Spaceship">>, <<"Castle", "Palace">>, <<"Tower", "Building">>,
    <<"Bridge", "Tunnel">>, <<"Road", "Highway">>, <<"City", "Town">>,
    <<"Village", "Hamlet">>, <<"King", "Emperor">>, <<"Queen", "Princess">>,
    <<"Knight", "Warrior">>, <<"Wizard", "Sorcerer">>, <<"Dragon", "Dinosaur">>,
    <<"Eagle", "Hawk">>, <<"Whale", "Dolphin">>, <<"Shark", "Fish">>,
    <<"Snake", "Lizard">>, <<"Spider", "Insect">>, <<"Rose", "Tulip">>,
    <<"Tree", "Plant">>, <<"Grass", "Weed">>, <<"Diamond", "Crystal">>,
    <<"Gold", "Silver">>, <<"Ring", "Bracelet">>, <<"Necklace", "Chain">>,
    <<"Candle", "Lamp">>, <<"Fire", "Flame">>, <<"Ice", "Snow">>,
    <<"Desert", "Wasteland">>, <<"Island", "Peninsula">>, <<"Volcano", "Mountain">>,
    <<"Cave", "Cavern">>, <<"Treasure", "Jewel">>, <<"Pirate", "Sailor">>,
    <<"Hero", "Champion">>, <<"Villain", "Criminal">>, <<"Mystery", "Secret">>,
    <<"Adventure", "Journey">>, <<"Story", "Tale">>, <<"Legend", "Myth">>,
    <<"Ghost", "Spirit">>, <<"Angel", "Fairy">>, <<"Monster", "Creature">>,
    <<"Robot", "Android">>, <<"Alien", "Extraterrestrial">>, <<"Planet", "Star">>,
    <<"Galaxy", "Universe">>, <<"Comet", "Meteor">> >>

\* `as usize` keeps the low 4 bytes of the u64 on wasm32
UsizeBytes == 4

RECURSIVE BytesMod(_, _, _)
\* (the little-endian number of the first n bytes of buf) % m
BytesMod(buf, n, m) ==
    IF n = 0 THEN 0
    ELSE (buf[1] + 256 * BytesMod(Tail(buf), n - 1, m)) % m

\* (u64::from_le_bytes(buf) as usize) % m
RandomIndex(buf, m) == BytesMod(buf, UsizeBytes, m)

\* generate_cards with the imposter seat drawn from one seat too many
generate_cards_wide(player_count, buf_word, buf_imposter) ==
    LET pair_index == RandomIndex(buf_word, Len(word_pairs))
        normal_word == word_pairs[pair_index + 1][1]
        imposter_word == word_pairs[pair_index + 1][2]
        imposter_idx == RandomIndex(buf_imposter, player_count + 1)
    IN  [cards |-> [j \in 1..player_count |->
                        IF j - 1 = imposter_idx
                        THEN GameCard("Imposter", imposter_word)
                        ELSE GameCard("Normal", normal_word)],
         imposter |-> imposter_idx]

\* fn generate_cards(player_count: usize) -> (Vec<GameCard>, usize), with the
\* two getrandom buffers as inputs (a failed getrandom leaves the zero buffer)
generate_cards(player_count, buf_word, buf_imposter) ==
    LET pair_index == RandomIndex(buf_word, Len(word_pairs))
        normal_word == word_pairs[pair_index + 1][1]
        imposter_word == word_pairs[pair_index + 1][2]
        imposter_idx == RandomIndex(buf_imposter, player_count)
    IN  [cards |-> [j \in 1..player_count |->
                        IF j - 1 = imposter_idx
                        THEN GameCard("Imposter", imposter_word)
                        ELSE GameCard("Normal", normal_word)],
         imposter |-> imposter_idx]

----------------------------------------------------------------------------
(* The state after construction: the signals' initial values, and the first
   render of SetupScreen, which sizes player_names *)

\* Where local_storage() yields no Storage (and on every target other than
\* wasm32) load_session_id and load_game_state return None and both save
\* functions do nothing: startup generates an id and sets initialized, and
\* the auto-save effect changes nothing from then on.
StartedWithoutStorage ==
    /\ session_id = "id-1"
    /\ initialized = TRUE
    /\ init_pending = FALSE
    /\ save_pending = FALSE
    /\ storage_ok = FALSE
    /\ ls_session_id = None
    /\ ls_games = [id \in {"id-1", "id-2", ""} |-> None]

Init ==
    /\ game_screen = Setup
    /\ players = <<>>
    /\ player_count_input = <<"3">>
    /\ player_names = ResizeNames(<<>>, PlayerCount(<<"3">>))
    /\ round_number = 1
    /\ cards = <<>>
    /\ imposter_index = 0
    /\ card_revealed = FALSE
    /\ effect_pending = FALSE
    /\ panicked = FALSE
    /\ StartedWithoutStorage

\* a handler runs only while the application is alive and no effect is queued
\* (queued effects run before the next event is handled)
Idle == ~panicked /\ ~effect_pending /\ ~init_pending /\ ~save_pending

----------------------------------------------------------------------------
(* SetupScreen *)

\* oninput of the player-count input, and the render that follows
SetPlayerCount(text) ==
    /\ Idle
    /\ game_screen = Setup
    /\ player_count_input' = text
    /\ player_names' = ResizeNames(player_names, PlayerCount(text))
    /\ UNCHANGED <<game_screen, players, round_number, cards, imposter_index,
                   card_revealed, effect_pending, panicked>>

RECURSIVE PadTo(_, _)
\* while names.len() <= i { names.push(String::new()) }
PadTo(names, i) ==
    IF Len(names) <= i THEN PadTo(Append(names, <<>>), i) ELSE names

\* oninput of the name input of slot i, and the render that follows
SetPlayerName(i, text) ==
    /\ Idle
    /\ game_screen = Setup
    /\ i < PlayerCount(player_count_input)
    /\ LET names == [PadTo(player_names, i) EXCEPT ![i + 1] = text]
       IN  player_names' = ResizeNames(names, PlayerCount(player_count_input))
    /\ UNCHANGED <<game_screen, players, player_count_input, round_number, cards,
                   imposter_index, card_revealed, effect_pending, panicked>>

\* NewPlayers with the roster in reverse order
NewPlayersReversed(names) ==
    [j \in 1..Len(names) |-> Player(names[Len(names) + 1 - j], 0, FALSE)]

\* names.iter().map(|name| Player { name, score: 0, is_eliminated: false })
NewPlayers(names) == [j \in 1..Len(names) |-> Player(names[j], 0, FALSE)]

\* onclick of "Start Game"; CardViewScreen is mounted by the render that follows
StartGame ==
    /\ Idle
    /\ game_screen = Setup
    /\ IF AllNamesValid(player_names)
       THEN /\ players' = NewPlayers(player_names)
            /\ round_number' = 1
            /\ game_screen' = CardView(0)
            /\ card_revealed' = FALSE
            /\ effect_pending' = TRUE
            /\ UNCHANGED <<player_count_input, player_names, cards, imposter_index,
                           panicked>>
       ELSE UNCHANGED gvars

----------------------------------------------------------------------------
(* CardViewScreen *)

\* the use_effect that initialises the cards of the round; it runs once after
\* the screen is mounted (its run after its own writes finds cards non-empty)
CardViewEffectFrom(word_bufs, imposter_bufs) ==
    /\ ~panicked
    /\ effect_pending
    /\ effect_pending' = FALSE
    /\ IF cards = <<>> /\ Len(players) > 0
       THEN \E buf_word \in word_bufs, buf_imposter \in imposter_bufs :
               LET g == generate_cards(Len(players), buf_word, buf_imposter)
               IN  /\ cards' = g.cards
                   /\ imposter_index' = g.imposter
       ELSE UNCHANGED <<cards, imposter_index>>
    /\ UNCHANGED <<game_screen, players, player_count_input, player_names,
                   round_number, card_revealed, panicked>>

\* the render shows the card of seat i: i is a seat, and a card exists for it
CardShown(i) ==
    /\ i < Len(players)
    /\ ~(cards = <<>> \/ i >= Len(cards))

\* onclick of "Reveal My Card"
RevealCard ==
    /\ Idle
    /\ game_screen.kind = "CardView"
    /\ CardShown(game_screen.current_player_index)
    /\ ~card_revealed
    /\ card_revealed' = TRUE
    /\ UNCHANGED <<game_screen, players, player_count_input, player_names,
                   round_number, cards, imposter_index, effect_pending, panicked>>

\* onclick of "Next Player"
NextPlayer ==
    /\ Idle
    /\ game_screen.kind = "CardView"
    /\ CardShown(game_screen.current_player_index)
    /\ card_revealed
    /\ card_revealed' = FALSE
    /\ game_screen' = CardView(game_screen.current_player_index + 1)
    /\ UNCHANGED <<players, player_count_input, player_names, round_number, cards,
                   imposter_index, effect_pending, panicked>>

\* ProceedToVoting without the test that every seat was visited
ProceedAnytime ==
    /\ Idle
    /\ game_screen.kind = "CardView"
    /\ game_screen' = Voting
    /\ UNCHANGED <<players, player_count_input, player_names, round_number, cards,
                   imposter_index, card_revealed, effect_pending, panicked>>

\* onclick of "Proceed to Voting"
ProceedToVoting ==
    /\ Idle
    /\ game_screen.kind = "CardView"
    /\ game_screen.current_player_index >= Len(players)
    /\ game_screen' = Voting
    /\ UNCHANGED <<players, player_count_input, player_names, round_number, cards,
                   imposter_index, card_revealed, effect_pending, panicked>>

----------------------------------------------------------------------------
(* Renders that index the player list *)

\* EliminationScreen reads player_list[eliminated_index] and RoundEndScreen
\* reads player_list[imposter_index()] while rendering; an index out of range
\* panics
RenderPanics(screen, player_list, imposter) ==
    \/ screen.kind = "Elimination" /\ screen.eliminated_index >= Len(player_list)
    \/ screen.kind = "RoundEnd" /\ imposter >= Len(player_list)

----------------------------------------------------------------------------
(* VotingScreen *)

\* active_indices without the filter: every seat can be voted out
all_indices(player_list) == 0..(Len(player_list) - 1)

\* the seats of the players that are not eliminated
active_indices(player_list) ==
    { i \in 0..(Len(player_list) - 1) : ~player_list[i + 1].is_eliminated }

\* Evict that already marks the seat eliminated
EvictMarksNow(player_idx) ==
    /\ Idle
    /\ game_screen = Voting
    /\ player_idx \in active_indices(players)
    /\ game_screen' = Elimination(player_idx, player_idx = imposter_index)
    /\ players' = [players EXCEPT ![player_idx + 1].is_eliminated = TRUE]
    /\ panicked' = RenderPanics(game_screen', players', imposter_index)
    /\ UNCHANGED <<player_count_input, player_names, round_number, cards,
                   imposter_index, card_revealed, effect_pending>>

\* onclick of "Evict" on the card of seat player_idx
Evict(player_idx) ==
    /\ Idle
    /\ game_screen = Voting
    /\ player_idx \in active_indices(players)
    /\ LET was_imposter == (player_idx = imposter_index)
       IN  game_screen' = Elimination(player_idx, was_imposter)
    /\ panicked' = RenderPanics(game_screen', players, imposter_index)
    /\ UNCHANGED <<players, player_count_input, player_names, round_number, cards,
                   imposter_index, card_revealed, effect_pending>>

----------------------------------------------------------------------------
(* EliminationScreen *)

\* LastActive off by one: the round already ends with 3 players left
LastActiveThree == 2 + 1

CivilianAward == 10
ImposterAward == 20
LastActive == 2

\* updated_players[eliminated_index].is_eliminated = true
MarkEliminated(player_list, k) ==
    [player_list EXCEPT ![k + 1].is_eliminated = TRUE]

\* AwardCivilians that skips the players already eliminated
AwardActiveCivilians(player_list, imposter) ==
    [j \in 1..Len(player_list) |->
        IF j - 1 # imposter /\ ~player_list[j].is_eliminated
        THEN [player_list[j] EXCEPT !.score = @ + CivilianAward]
        ELSE player_list[j]]

\* every player but the one at seat imposter gets 10 points
AwardCivilians(player_list, imposter) ==
    [j \in 1..Len(player_list) |->
        IF j - 1 # imposter
        THEN [player_list[j] EXCEPT !.score = @ + CivilianAward]
        ELSE player_list[j]]

\* final_players[imposter_index()].score += 20
AwardImposter(player_list, imposter) ==
    [player_list EXCEPT ![imposter + 1].score = @ + ImposterAward]

\* onclick of "Continue"
ConfirmElimination ==
    /\ Idle
    /\ game_screen.kind = "Elimination"
    /\ LET k == game_screen.eliminated_index
           updated_players == MarkEliminated(players, k)
           remaining_count == Cardinality(active_indices(updated_players))
       IN  IF k >= Len(players)
           THEN \* updated_players[eliminated_index] is out of range
                /\ panicked' = TRUE
                /\ UNCHANGED <<game_screen, players, round_number>>
           ELSE IF game_screen.was_imposter
           THEN /\ players' = AwardCivilians(updated_players, imposter_index)
                /\ game_screen' = RoundEnd(TRUE, TRUE)
                /\ panicked' = RenderPanics(game_screen', players', imposter_index)
                /\ UNCHANGED round_number
           ELSE IF remaining_count <= LastActive
           THEN IF imposter_index >= Len(players)
                THEN \* final_players[imposter_index()] is out of range, after
                     \* players.set(updated_players)
                     /\ players' = updated_players
                     /\ panicked' = TRUE
                     /\ UNCHANGED <<game_screen, round_number>>
                ELSE /\ players' = AwardImposter(updated_players, imposter_index)
                     /\ game_screen' = RoundEnd(FALSE, TRUE)
                     /\ panicked' = RenderPanics(game_screen', players', imposter_index)
                     /\ UNCHANGED round_number
           ELSE /\ round_number < MaxRound
                /\ players' = updated_players
                /\ round_number' = round_number + 1
                /\ game_screen' = Voting
                /\ UNCHANGED panicked
    /\ UNCHANGED <<player_count_input, player_names, cards, imposter_index,
                   card_revealed, effect_pending>>

----------------------------------------------------------------------------
(* RoundEndScreen *)

\* onclick of "View Final Scores"
ViewScores ==
    /\ Idle
    /\ game_screen.kind = "RoundEnd"
    /\ game_screen' = GameScore
    /\ UNCHANGED <<players, player_count_input, player_names, round_number, cards,
                   imposter_index, card_revealed, effect_pending, panicked>>

\* NewGame that also resets round_number
NewGameResetsRound ==
    /\ game_screen' = Setup
    /\ player_names' = ResizeNames(player_names, PlayerCount(player_count_input))
    /\ round_number' = 1
    /\ UNCHANGED <<players, player_count_input, cards, imposter_index,
                   card_revealed, effect_pending, panicked>>

\* what the "New Game" handlers do: game_screen.set(GameScreen::Setup), and the
\* render of SetupScreen that follows
NewGame ==
    /\ game_screen' = Setup
    /\ player_names' = ResizeNames(player_names, PlayerCount(player_count_input))
    /\ UNCHANGED <<players, player_count_input, round_number, cards, imposter_index,
                   card_revealed, effect_pending, panicked>>

\* onclick of "New Game" on the round-end screen
NewGameFromRoundEnd ==
    /\ Idle
    /\ game_screen.kind = "RoundEnd"
    /\ NewGame

----------------------------------------------------------------------------
(* GameScoreScreen *)

\* ResetEliminations that resets nothing
KeepEliminations(player_list) == player_list

\* ResetEliminations that starts the round with fresh scores too
ResetEliminationsAndScores(player_list) ==
    [j \in 1..Len(player_list) |-> Player(player_list[j].name, 0, FALSE)]

\* player.is_eliminated = false, for every player
ResetEliminations(player_list) ==
    [j \in 1..Len(player_list) |-> [player_list[j] EXCEPT !.is_eliminated = FALSE]]

\* onclick of "Play Next Round"; CardViewScreen is mounted by the render that
\* follows
NextRound ==
    /\ Idle
    /\ game_screen = GameScore
    /\ round_number < MaxRound
    /\ players' = ResetEliminations(players)
    /\ cards' = <<>>
    /\ round_number' = round_number + 1
    /\ game_screen' = CardView(0)
    /\ card_revealed' = FALSE
    /\ effect_pending' = TRUE
    /\ UNCHANGED <<player_count_input, player_names, imposter_index, panicked>>

\* onclick of "New Game" on the score screen
NewGameFromScore ==
    /\ Idle
    /\ game_screen = GameScore
    /\ NewGame

----------------------------------------------------------------------------
(* GameState and its JSON form (serde_json, with the derived Serialize and
   Deserialize of lines 6-45).  A JSON document is modelled as the tree
   serde_json builds: a tagged value; NotJson is a text that is no JSON. *)

JStr(s) == [t |-> "string", v |-> s]
JNum(n) == [t |-> "number", v |-> n]
JBool(b) == [t |-> "bool", v |-> b]
JArr(a) == [t |-> "array", v |-> a]
JObj(o) == [t |-> "object", v |-> o]
NotJson == [t |-> "invalid", v |-> <<>>]

\* the GameState the auto-save effect builds from the signals
CurrentState ==
    [session_id |-> session_id,
     game_screen |-> game_screen,
     players |-> players,
     player_count_input |-> player_count_input,
     player_names |-> player_names,
     round_number |-> round_number,
     cards |-> cards,
     imposter_index |-> imposter_index]

\* a struct is written as an object of its fields
SerPlayer(p) ==
    JObj([name |-> JStr(p.name), score |-> JNum(p.score),
          is_eliminated |-> JBool(p.is_eliminated)])

\* a unit variant is written as its name
SerCardType(t) == JStr(t)

SerCard(c) == JObj([card_type |-> SerCardType(c.card_type), word |-> JStr(c.word)])

\* SerScreen that writes the name of the variant only
SerScreenTagOnly(s) == JStr(s.kind)

\* a unit variant is written as its name, a struct variant as an object whose
\* one key is its name and whose value is the object of its fields
SerScreen(s) ==
    CASE s.kind = "CardView" ->
           JObj([CardView |->
                   JObj([current_player_index |-> JNum(s.current_player_index)])])
      [] s.kind = "Elimination" ->
           JObj([Elimination |->
                   JObj([eliminated_index |-> JNum(s.eliminated_index),
                         was_imposter |-> JBool(s.was_imposter)])])
      [] s.kind = "RoundEnd" ->
           JObj([RoundEnd |->
                   JObj([imposter_found |-> JBool(s.imposter_found),
                         game_over |-> JBool(s.game_over)])])
      [] OTHER -> JStr(s.kind)

\* serde_json::to_string(state)
SerializeState(state) ==
    JObj([session_id |-> JStr(state.session_id),
          game_screen |-> SerScreen(state.game_screen),
          players |-> JArr([j \in 1..Len(state.players) |-> SerPlayer(state.players[j])]),
          player_count_input |-> JStr(state.player_count_input),
          player_names |-> JArr([j \in 1..Len(state.player_names) |->
                                    JStr(state.player_names[j])]),
          round_number |-> JNum(state.round_number),
          cards |-> JArr([j \in 1..Len(state.cards) |-> SerCard(state.cards[j])]),
          imposter_index |-> JNum(state.imposter_index)])

\* an object that has every field of the struct (other fields are ignored)
HasFields(j, names) == j.t = "object" /\ names \subseteq DOMAIN j.v

IsString(j) == j.t = "string"
IsBool(j) == j.t = "bool"
\* i32
IsInt(j) == j.t = "number" /\ j.v >= -2147483647 - 1 /\ j.v <= 2147483647
\* usize (values above ValueCap do not occur)
IsUsize(j) == j.t = "number" /\ j.v >= 0

PlayerOk(j) ==
    /\ HasFields(j, {"name", "score", "is_eliminated"})
    /\ IsString(j.v.name)
    /\ IsInt(j.v.score)
    /\ IsBool(j.v.is_eliminated)

DesPlayer(j) == Player(j.v.name.v, j.v.score.v, j.v.is_eliminated.v)

CardTypeOk(j) == IsString(j) /\ j.v \in {"Normal", "Imposter"}

CardOk(j) ==
    /\ HasFields(j, {"card_type", "word"})
    /\ CardTypeOk(j.v.card_type)
    /\ IsString(j.v.word)

DesCard(j) == GameCard(j.v.card_type.v, j.v.word.v)

\* the fields of the struct variant named tag
VariantOk(tag, p) ==
    CASE tag = "CardView" ->
           HasFields(p, {"current_player_index"}) /\ IsUsize(p.v.current_player_index)
      [] tag = "Elimination" ->
           /\ HasFields(p, {"eliminated_index", "was_imposter"})
           /\ IsUsize(p.v.eliminated_index)
           /\ IsBool(p.v.was_imposter)
      [] tag = "RoundEnd" ->
           /\ HasFields(p, {"imposter_found", "game_over"})
           /\ IsBool(p.v.imposter_found)
           /\ IsBool(p.v.game_over)
      [] OTHER -> FALSE

ScreenOk(j) ==
    \/ IsString(j) /\ j.v \in {"Setup", "Voting", "GameScore"}
    \/ /\ j.t = "object"
       /\ \E tag \in {"CardView", "Elimination", "RoundEnd"} :
             DOMAIN j.v = {tag} /\ VariantOk(tag, j.v[tag])

DesScreen(j) ==
    IF IsString(j) THEN [kind |-> j.v]
    ELSE LET tag == CHOOSE x \in DOMAIN j.v : TRUE
             p == j.v[tag].v
         IN  CASE tag = "CardView" -> CardView(p.current_player_index.v)
               [] tag = "Elimination" ->
                    Elimination(p.eliminated_index.v, p.was_imposter.v)
               [] OTHER -> RoundEnd(p.imposter_found.v, p.game_over.v)

IsArray(j) == j.t = "array"

StateOk(j) ==
    /\ HasFields(j, {"session_id", "game_screen", "players", "player_count_input",
                     "player_names", "round_number", "cards", "imposter_index"})
    /\ IsString(j.v.session_id)
    /\ ScreenOk(j.v.game_screen)
    /\ IsArray(j.v.players)
    /\ \A i \in 1..Len(j.v.players.v) : PlayerOk(j.v.players.v[i])
    /\ IsString(j.v.player_count_input)
    /\ IsArray(j.v.player_names)
    /\ \A i \in 1..Len(j.v.player_names.v) : IsString(j.v.player_names.v[i])
    /\ IsInt(j.v.round_number)
    /\ IsArray(j.v.cards)
    /\ \A i \in 1..Len(j.v.cards.v) : CardOk(j.v.cards.v[i])
    /\ IsUsize(j.v.imposter_index)

\* DeserializeState that makes a state of whatever it is given
DeserializeStateLenient(j) ==
    IF StateOk(j)
    THEN Some([session_id |-> j.v.session_id.v,
               game_screen |-> DesScreen(j.v.game_screen),
               players |-> [i \in 1..Len(j.v.players.v) |-> DesPlayer(j.v.players.v[i])],
               player_count_input |-> j.v.player_count_input.v,
               player_names |-> [i \in 1..Len(j.v.player_names.v) |->
                                    j.v.player_names.v[i].v],
               round_number |-> j.v.round_number.v,
               cards |-> [i \in 1..Len(j.v.cards.v) |-> DesCard(j.v.cards.v[i])],
               imposter_index |-> j.v.imposter_index.v])
    ELSE Some([session_id |-> "", game_screen |-> Voting, players |-> <<>>,
               player_count_input |-> <<>>, player_names |-> <<>>,
               round_number |-> 0, cards |-> <<>>, imposter_index |-> 0])

\* serde_json::from_str(&json).ok()
DeserializeState(j) ==
    IF StateOk(j)
    THEN Some([session_id |-> j.v.session_id.v,
               game_screen |-> DesScreen(j.v.game_screen),
               players |-> [i \in 1..Len(j.v.players.v) |-> DesPlayer(j.v.players.v[i])],
               player_count_input |-> j.v.player_count_input.v,
               player_names |-> [i \in 1..Len(j.v.player_names.v) |->
                                    j.v.player_names.v[i].v],
               round_number |-> j.v.round_number.v,
               cards |-> [i \in 1..Len(j.v.cards.v) |-> DesCard(j.v.cards.v[i])],
               imposter_index |-> j.v.imposter_index.v])
    ELSE None

----------------------------------------------------------------------------
(* localStorage (the wasm32 build) *)

\* load_session_id that finds nothing
load_session_id_absent == None

\* storage.get_item("agent_x_session_id")
load_session_id == IF storage_ok THEN ls_session_id ELSE None

\* the stored id after save_session_id(id)
save_session_id(id) == IF storage_ok THEN Some(id) ELSE ls_session_id

\* load_game_state(sid) on the game items games
load_game_state(games, sid) ==
    IF storage_ok /\ games[sid] # None
    THEN DeserializeState(games[sid][1])
    ELSE None

\* the game items after save_game_state(state)
save_game_state(games, state) ==
    IF storage_ok
    THEN [games EXCEPT ![state.session_id] = Some(SerializeState(state))]
    ELSE games

----------------------------------------------------------------------------
(* The Game component: mount, the initialisation effect, the auto-save effect *)

\* the page is loaded again (also after a panic): the signals are created
\* with their initial values, SetupScreen renders, both effects of Game are
\* queued; the storage is kept
Reload ==
    /\ panicked \/ Idle
    /\ game_screen' = Setup
    /\ players' = <<>>
    /\ player_count_input' = <<"3">>
    /\ player_names' = ResizeNames(<<>>, PlayerCount(<<"3">>))
    /\ round_number' = 1
    /\ cards' = <<>>
    /\ imposter_index' = 0
    /\ card_revealed' = FALSE
    /\ effect_pending' = FALSE
    /\ panicked' = FALSE
    /\ session_id' = ""
    /\ initialized' = FALSE
    /\ init_pending' = TRUE
    /\ save_pending' = TRUE
    /\ UNCHANGED <<storage_ok, ls_session_id, ls_games>>

\* the first use_effect of Game, and the render that follows.  Its run after
\* initialized.set(true) finds initialized and does nothing.
InitEffect ==
    /\ ~panicked
    /\ init_pending
    /\ ~initialized
    /\ init_pending' = FALSE
    /\ \E id \in SessionIds :
         LET stored == load_session_id
             sid == IF stored # None THEN stored[1] ELSE id
             saved_state == load_game_state(ls_games, sid)
         IN  /\ ls_session_id' = IF stored # None THEN ls_session_id
                                 ELSE save_session_id(id)
             /\ session_id' = sid
             /\ IF saved_state # None
                THEN /\ game_screen' = saved_state[1].game_screen
                     /\ players' = saved_state[1].players
                     /\ player_count_input' = saved_state[1].player_count_input
                     /\ player_names' =
                          IF saved_state[1].game_screen = Setup
                          THEN ResizeNames(saved_state[1].player_names,
                                           PlayerCount(saved_state[1].player_count_input))
                          ELSE saved_state[1].player_names
                     /\ round_number' = saved_state[1].round_number
                     /\ cards' = saved_state[1].cards
                     /\ imposter_index' = saved_state[1].imposter_index
                ELSE UNCHANGED <<game_screen, players, player_count_input,
                                 player_names, round_number, cards, imposter_index>>
    /\ initialized' = TRUE
    /\ save_pending' = TRUE
    /\ card_revealed' = FALSE
    /\ effect_pending' = (game_screen'.kind = "CardView")
    /\ panicked' = RenderPanics(game_screen', players', imposter_index')
    /\ UNCHANGED <<storage_ok, ls_games>>

\* SaveReady without its conditions
SaveAlways == TRUE

\* initialized() && !session_id().is_empty()
SaveReady == initialized /\ session_id # ""

\* the second use_effect of Game
AutoSaveEffect ==
    /\ ~panicked
    /\ save_pending
    /\ save_pending' = FALSE
    /\ ls_games' = IF SaveReady THEN save_game_state(ls_games, CurrentState)
                   ELSE ls_games
    /\ UNCHANGED <<game_screen, players, player_count_input, player_names,
                   round_number, cards, imposter_index, card_revealed,
                   effect_pending, panicked, session_id, initialized,
                   init_pending, storage_ok, ls_session_id>>

\* what a handler or the card effect does to the session: the signals it wrote
\* queue the auto-save effect (a run after writes that changed nothing stores
\* the record that is stored already)
SaveQueued ==
    /\ UNCHANGED <<session_id, initialized, init_pending, storage_ok,
                   ls_session_id, ls_games>>
    /\ save_pending' = (save_pending \/ CurrentState' # CurrentState)

----------------------------------------------------------------------------
(* The specification *)

Next ==
    \/ \E text \in CountTexts : SetPlayerCount(text) /\ UNCHANGED pvars
    \/ \E i \in 0..(MaxPlayers - 1) : \E text \in NameTexts(i) : SetPlayerName(i, text) /\ UNCHANGED pvars
    \/ StartGame /\ UNCHANGED pvars
    \/ CardViewEffectFrom(WordBufs, ImposterBufs) /\ UNCHANGED pvars
    \/ RevealCard /\ UNCHANGED pvars
    \/ NextPlayer /\ UNCHANGED pvars
    \/ ProceedToVoting /\ UNCHANGED pvars
    \/ \E player_idx \in 0..(MaxPlayers - 1) : Evict(player_idx) /\ UNCHANGED pvars
    \/ ConfirmElimination /\ UNCHANGED pvars
    \/ ViewScores /\ UNCHANGED pvars
    \/ NewGameFromRoundEnd /\ UNCHANGED pvars
    \/ NextRound /\ UNCHANGED pvars
    \/ NewGameFromScore /\ UNCHANGED pvars

Spec == Init /\ [][Next]_vars

\* The same program with full rosters: the count texts reach both ends of the
\* clamp, and the other inputs are kept few
LargeCountTexts == { <<"1", "5">>, <<"1">>, <<"a", "b", "c">> }
LargeWordBufs == { <<0, 0, 0, 0, 0, 0, 0, 0>> }
LargeImposterBufs == { <<1, 0, 0, 0, 0, 0, 0, 0>>,
                       <<255, 255, 255, 255, 255, 255, 255, 255>> }

NextLarge ==
    \/ \E text \in LargeCountTexts : SetPlayerCount(text) /\ UNCHANGED pvars
    \/ \E i \in 0..(MaxPlayers - 1) : SetPlayerName(i, SlotName(i)) /\ UNCHANGED pvars
    \/ StartGame /\ UNCHANGED pvars
    \/ CardViewEffectFrom(LargeWordBufs, LargeImposterBufs) /\ UNCHANGED pvars
    \/ RevealCard /\ UNCHANGED pvars
    \/ NextPlayer /\ UNCHANGED pvars
    \/ ProceedToVoting /\ UNCHANGED pvars
    \/ \E player_idx \in 0..(MaxPlayers - 1) : Evict(player_idx) /\ UNCHANGED pvars
    \/ ConfirmElimination /\ UNCHANGED pvars
    \/ ViewScores /\ UNCHANGED pvars
    \/ NewGameFromRoundEnd /\ UNCHANGED pvars
    \/ NextRound /\ UNCHANGED pvars
    \/ NewGameFromScore /\ UNCHANGED pvars

SpecLarge == Init /\ [][NextLarge]_vars

\* The program in the browser, with its session: few inputs, page reloads, and
\* a storage that works or not and may hold items from before
PersistCountTexts == { <<"3">>, <<"4">> }
PersistWordBufs == { <<0, 0, 0, 0, 0, 0, 0, 0>> }
PersistImposterBufs == { <<1, 0, 0, 0, 0, 0, 0, 0>>,
                         <<255, 255, 255, 255, 255, 255, 255, 255>> }

NoGames == [id \in SessionIds \cup {""} |-> None]

\* game items that serde_json::from_str rejects: a text that is no JSON, an
\* object without the fields of GameState, and a GameState whose game_screen
\* names a struct variant without its fields
CorruptRecords ==
    { NotJson,
      JObj([session_id |-> JStr("id-1")]),
      JObj([session_id |-> JStr("id-1"),
            game_screen |-> JStr("CardView"),
            players |-> JArr(<<>>),
            player_count_input |-> JStr(<<"3">>),
            player_names |-> JArr(<<>>),
            round_number |-> JNum(1),
            cards |-> JArr(<<>>),
            imposter_index |-> JNum(0)]) }

\* the page is loaded for the first time: Game is mounted, SetupScreen has
\* rendered, both effects are queued
InitPersist ==
    /\ game_screen = Setup
    /\ players = <<>>
    /\ player_count_input = <<"3">>
    /\ player_names = ResizeNames(<<>>, PlayerCount(<<"3">>))
    /\ round_number = 1
    /\ cards = <<>>
    /\ imposter_index = 0
    /\ card_revealed = FALSE
    /\ effect_pending = FALSE
    /\ panicked = FALSE
    /\ session_id = ""
    /\ initialized = FALSE
    /\ init_pending = TRUE
    /\ save_pending = TRUE
    /\ storage_ok \in BOOLEAN
    /\ ls_session_id \in (IF storage_ok THEN {None, Some("id-1")} ELSE {None})
    /\ ls_games \in (IF ls_session_id = None
                     THEN {NoGames}
                     ELSE {NoGames} \cup
                          { [NoGames EXCEPT !["id-1"] = Some(r)] : r \in CorruptRecords })

NextPersist ==
    \/ Reload
    \/ InitEffect
    \/ AutoSaveEffect
    \/ \E text \in PersistCountTexts : SetPlayerCount(text) /\ SaveQueued
    \/ \E i \in 0..(MaxPlayers - 1) : SetPlayerName(i, SlotName(i)) /\ SaveQueued
    \/ StartGame /\ SaveQueued
    \/ CardViewEffectFrom(PersistWordBufs, PersistImposterBufs) /\ SaveQueued
    \/ RevealCard /\ SaveQueued
    \/ NextPlayer /\ SaveQueued
    \/ ProceedToVoting /\ SaveQueued
    \/ \E player_idx \in 0..(MaxPlayers - 1) : Evict(player_idx) /\ SaveQueued
    \/ ConfirmElimination /\ SaveQueued
    \/ ViewScores /\ SaveQueued
    \/ NewGameFromRoundEnd /\ SaveQueued
    \/ NextRound /\ SaveQueued
    \/ NewGameFromScore /\ SaveQueued

SpecPersist == InitPersist /\ [][NextPersist]_vars

----------------------------------------------------------------------------
(* Claims *)

\* C1: whenever cards is non-empty, cards.length == players.length, the card
\* at imposterIndex is the Imposter card and every other card is Normal.
C1_CardsMatchRoster ==
    cards # <<>> =>
        /\ Len(cards) = Len(players)
        /\ imposter_index < Len(cards)
        /\ \A j \in 1..Len(cards) :
              cards[j].card_type = (IF j - 1 = imposter_index THEN "Imposter" ELSE "Normal")

\* C2: no reachable state indexes the player list out of range: no handler or
\* render panics, eliminatedIndex < players.length in every Elimination state
\* and imposterIndex < players.length whenever RoundEnd is shown.
C2_IndicesInRange ==
    /\ ~panicked
    /\ game_screen.kind = "Elimination" => game_screen.eliminated_index < Len(players)
    /\ game_screen.kind = "RoundEnd" => imposter_index < Len(players)

\* C3: the "new game" action, from RoundEnd or from GameScore, moves to Setup
\* and leaves players and cards empty.
C3_NewGameClears ==
    [][(game_screen.kind \in {"RoundEnd", "GameScore"} /\ game_screen' = Setup)
          => (players' = <<>> /\ cards' = <<>>)]_vars

\* C4: on every entry to CardView(0), by Start from Setup or by "next round"
\* from GameScore, no cards of an earlier round or game are left, so that the
\* card generator runs before any card is shown.
C4_FreshCardsOnEntry ==
    [][(game_screen.kind \in {"Setup", "GameScore"} /\ game_screen' = CardView(0))
          => cards' = <<>>]_vars

\* C5: in every state whose phase is not Setup, 3 <= players.length <= 10,
\* whatever text was typed in the player-count input before Start.
C5_RosterSize ==
    game_screen # Setup => (3 <= Len(players) /\ Len(players) <= 10)

\* C5 witness: a game started with the text 15 in the count input has 10 players
C5_Witness ==
    /\ game_screen.kind = "Voting"
    /\ player_count_input = <<"1", "5">>
    /\ Len(players) = 10

\* C6: Start in Setup produces CardView(0), roundNumber = 1 and one player
\* per name slot, in the same order, with score 0 and isEliminated = false;
\* and with every name non-blank Start does leave Setup.
C6_StartCreatesRoster ==
    /\ [][(game_screen = Setup /\ game_screen' # Setup) =>
            /\ game_screen' = CardView(0)
            /\ round_number' = 1
            /\ Len(players') = Len(player_names)
            /\ \A j \in 1..Len(player_names) :
                  players'[j] = [name |-> player_names[j], score |-> 0,
                                 is_eliminated |-> FALSE]]_vars
    /\ [][(/\ game_screen = Setup /\ ~panicked /\ ~effect_pending
           /\ \A j \in 1..Len(player_names) :
                 \E c \in 1..Len(player_names[j]) : player_names[j][c] # " "
           /\ StartGame)
          => game_screen' = CardView(0)]_vars

\* C6 witness: a game just started after an earlier game, whose cards are
\* still stored, with four fresh players
C6_Witness ==
    /\ game_screen = CardView(0)
    /\ effect_pending
    /\ cards # <<>>
    /\ round_number = 1
    /\ Len(players) = 4
    /\ \A j \in 1..Len(players) : players[j].score = 0 /\ ~players[j].is_eliminated

\* C7: while a name slot is empty or whitespace-only, Start is a no-op: no
\* step taken in Setup changes the phase, players, roundNumber, cards or
\* imposterIndex.
C7_StartNeedsNames ==
    [][(/\ game_screen = Setup
        /\ \E j \in 1..Len(player_names) :
              \A c \in 1..Len(player_names[j]) : player_names[j][c] = " ")
          => UNCHANGED <<game_screen, players, round_number, cards, imposter_index>>]_vars

\* C7 witness: Setup after an earlier game, one name whitespace-only and the
\* others filled in
C7_Witness ==
    /\ game_screen = Setup
    /\ players # <<>>
    /\ \E j \in 1..Len(player_names) :
          /\ player_names[j] = <<" ">>
          /\ \A i \in 1..Len(player_names) : i # j => player_names[i] = SlotName(i - 1)

\* C8: card viewing visits the seats in order: in CardView(i), 0 <= i <=
\* players.length; the phase changes only to CardView(i+1) when
\* i < players.length and only to Voting when i == players.length.
C8_SeatsInOrder ==
    /\ [](game_screen.kind = "CardView" =>
            /\ 0 <= game_screen.current_player_index
            /\ game_screen.current_player_index <= Len(players))
    /\ [][(game_screen.kind = "CardView" /\ game_screen' # game_screen) =>
            IF game_screen.current_player_index < Len(players)
            THEN game_screen' = CardView(game_screen.current_player_index + 1)
            ELSE /\ game_screen.current_player_index = Len(players)
                 /\ game_screen' = Voting]_vars

\* C8 witness: the transition screen after the last of four seats
C8_Witness ==
    /\ game_screen = CardView(4)
    /\ Len(players) = 4

\* C9: evicting seat k in Voting changes only the phase, to
\* Elimination(k, k == imposterIndex); players, roundNumber, cards,
\* imposterIndex and everything else are unchanged.
C9_EvictOnlyDecides ==
    [][(game_screen = Voting /\ game_screen' # game_screen) =>
          /\ \E k \in 0..(Len(players) - 1) :
                game_screen' = Elimination(k, k = imposter_index)
          /\ UNCHANGED <<players, player_count_input, player_names, round_number,
                         cards, imposter_index, card_revealed, effect_pending,
                         panicked>>]_vars

\* C9 witness: the imposter's seat was picked and is not yet marked
C9_Witness ==
    /\ game_screen.kind = "Elimination"
    /\ game_screen.was_imposter
    /\ game_screen.eliminated_index = imposter_index
    /\ ~players[game_screen.eliminated_index + 1].is_eliminated

\* C10: confirming Elimination(k, wasImposter = true) marks players[k]
\* eliminated, adds exactly 10 to the score of every player other than the one
\* at imposterIndex, also to those eliminated earlier, leaves the imposter's
\* score unchanged and moves to RoundEnd(true, true).
C10_ImposterCaught ==
    [][(/\ game_screen.kind = "Elimination"
        /\ game_screen.was_imposter
        /\ vars' # vars) =>
          /\ game_screen' = RoundEnd(TRUE, TRUE)
          /\ Len(players') = Len(players)
          /\ \A j \in 1..Len(players) :
                /\ players'[j].name = players[j].name
                /\ players'[j].score =
                      players[j].score + (IF j - 1 = imposter_index THEN 0 ELSE 10)
                /\ players'[j].is_eliminated =
                      (players[j].is_eliminated \/ j - 1 = game_screen.eliminated_index)
          /\ UNCHANGED <<round_number, cards, imposter_index>>]_vars

\* C10 witness: the imposter was caught after another player had been
\* eliminated, and that player got the 10 points too
C10_Witness ==
    /\ game_screen = RoundEnd(TRUE, TRUE)
    /\ imposter_index < Len(players)
    /\ players[imposter_index + 1].is_eliminated
    /\ players[imposter_index + 1].score = 0
    /\ \E j \in 1..Len(players) :
          /\ j - 1 # imposter_index
          /\ players[j].is_eliminated
          /\ players[j].score = 10

\* C11: confirming Elimination(k, wasImposter = false) when at most 2 players
\* are non-eliminated after marking k adds exactly 20 to the score of the
\* player at imposterIndex, changes no other score and moves to
\* RoundEnd(false, true).
C11_ImposterSurvives ==
    [][(/\ game_screen.kind = "Elimination"
        /\ ~game_screen.was_imposter
        /\ game_screen.eliminated_index < Len(players)
        /\ Cardinality({j \in 1..Len(players) :
                           /\ ~players[j].is_eliminated
                           /\ j - 1 # game_screen.eliminated_index}) <= 2
        /\ vars' # vars) =>
          /\ game_screen' = RoundEnd(FALSE, TRUE)
          /\ Len(players') = Len(players)
          /\ \A j \in 1..Len(players) :
                players'[j].score =
                    players[j].score + (IF j - 1 = imposter_index THEN 20 ELSE 0)]_vars

\* C12: confirming Elimination(k, wasImposter = false) when more than 2
\* players are non-eliminated after marking k returns to Voting, adds exactly 1
\* to roundNumber, marks k eliminated and leaves all scores, cards and
\* imposterIndex unchanged.
C12_VotingContinues ==
    [][(/\ game_screen.kind = "Elimination"
        /\ ~game_screen.was_imposter
        /\ game_screen.eliminated_index < Len(players)
        /\ Cardinality({j \in 1..Len(players) :
                           /\ ~players[j].is_eliminated
                           /\ j - 1 # game_screen.eliminated_index}) > 2
        /\ vars' # vars) =>
          /\ game_screen' = Voting
          /\ round_number' = round_number + 1
          /\ Len(players') = Len(players)
          /\ \A j \in 1..Len(players) :
                /\ players'[j].score = players[j].score
                /\ players'[j].name = players[j].name
                /\ players'[j].is_eliminated =
                      (players[j].is_eliminated \/ j - 1 = game_screen.eliminated_index)
          /\ UNCHANGED <<cards, imposter_index>>]_vars

\* C12 witness: back in Voting in round 2 with one of four players
\* eliminated, no score awarded and the cards of the round still in place
C12_Witness ==
    /\ game_screen = Voting
    /\ round_number = 2
    /\ Len(players) = 4
    /\ Len(cards) = 4
    /\ Cardinality({j \in 1..Len(players) : players[j].is_eliminated}) = 1
    /\ \A j \in 1..Len(players) : players[j].score = 0

\* C13: "next round" from GameScore sets every isEliminated to false, empties
\* cards, adds exactly 1 to roundNumber and sets the phase to CardView(0),
\* keeping the names, their order and all scores.
C13_NextRoundResets ==
    [][(game_screen = GameScore /\ game_screen' # GameScore /\ game_screen' # Setup) =>
          /\ game_screen' = CardView(0)
          /\ cards' = <<>>
          /\ round_number' = round_number + 1
          /\ Len(players') = Len(players)
          /\ \A j \in 1..Len(players) :
                players'[j] = [name |-> players[j].name, score |-> players[j].score,
                               is_eliminated |-> FALSE]]_vars

\* C13 witness: the second round was just entered, with a score from the
\* first round and nobody eliminated any more
C13_Witness ==
    /\ game_screen = CardView(0)
    /\ round_number = 2
    /\ cards = <<>>
    /\ \E j \in 1..Len(players) : players[j].score = 20
    /\ \A j \in 1..Len(players) : ~players[j].is_eliminated

\* C14: roundNumber is at least 1 in every state and no step lowers it,
\* except a successful Start from Setup, which sets it to 1.
C14_RoundMonotone ==
    /\ [](round_number >= 1)
    /\ [][round_number' < round_number =>
            (game_screen = Setup /\ game_screen' = CardView(0) /\ round_number' = 1)]_vars

\* C14 witness: back in Setup after "new game" with the round number of the
\* finished game still 2
C14_Witness ==
    /\ game_screen = Setup
    /\ round_number = 2
    /\ players # <<>>

----------------------------------------------------------------------------
(* generate_cards on its own: every roster size the setup screen can
   produce, and draws that cover both ends of the word list and of the seats *)

GenWordBufs == { <<0, 0, 0, 0, 0, 0, 0, 0>>,
                 <<100, 0, 0, 0, 0, 0, 0, 0>>,
                 <<101, 0, 0, 0, 7, 0, 0, 0>>,
                 <<1, 1, 0, 0, 0, 0, 0, 0>>,
                 <<255, 255, 255, 255, 255, 255, 255, 255>> }
GenImposterBufs == { <<0, 0, 0, 0, 0, 0, 0, 0>>,
                     <<2, 0, 0, 0, 0, 0, 0, 0>>,
                     <<9, 0, 0, 0, 3, 0, 0, 0>>,
                     <<10, 0, 0, 0, 0, 0, 0, 0>>,
                     <<255, 255, 255, 255, 255, 255, 255, 255>> }

\* the first n name slots filled in
FilledNames(n) == [j \in 1..n |-> SlotName(j - 1)]

\* CardViewScreen mounted at seat 0 with a roster of n players and no cards
InitGen ==
    /\ game_screen = CardView(0)
    /\ \E n \in MinPlayers..MaxPlayers :
          /\ players = NewPlayers(FilledNames(n))
          /\ player_names = FilledNames(n)
    /\ player_count_input = <<"3">>
    /\ round_number = 1
    /\ cards = <<>>
    /\ imposter_index = 0
    /\ card_revealed = FALSE
    /\ effect_pending = TRUE
    /\ panicked = FALSE
    /\ StartedWithoutStorage

NextGen == CardViewEffectFrom(GenWordBufs, GenImposterBufs) /\ UNCHANGED pvars

SpecGen == InitGen /\ [][NextGen]_vars

\* C15: for every player count n in 3..10 and every pair of draws,
\* generate_cards(n) returns n cards and an imposter index in 0..n-1; the card
\* at that index is the only Imposter card and holds the imposter word of the
\* chosen pair, and every other card is Normal and holds the civilian word of
\* the same pair.
C15_GenerateCards ==
    ~effect_pending =>
        LET n == Len(players)
        IN  /\ n \in MinPlayers..MaxPlayers
            /\ Len(cards) = n
            /\ imposter_index \in 0..(n - 1)
            /\ \E p \in 1..Len(word_pairs) :
                  \A j \in 1..n :
                     cards[j] = IF j - 1 = imposter_index
                                THEN GameCard("Imposter", word_pairs[p][2])
                                ELSE GameCard("Normal", word_pairs[p][1])

\* ten cards dealt from the last word pair, the imposter in the last seat
C15_Witness ==
    /\ ~effect_pending
    /\ Len(cards) = MaxPlayers
    /\ imposter_index = MaxPlayers - 1
    /\ cards[MaxPlayers] = GameCard("Imposter", "Meteor")
    /\ cards[1] = GameCard("Normal", "Comet")

----------------------------------------------------------------------------
(* Claims about the session and its storage *)

\* C16: a game record is written only when initialisation is complete and the
\* session id is resolved and, if new, stored: in every interleaving of the two
\* effects of Game, a step that changes a game item happens with initialized
\* set, the initialisation effect done and a non-empty session id that is the
\* stored one, and it writes the current state under that id only.  So a
\* record saved earlier is not overwritten before it has been loaded.
C16_LoadBeforeSave ==
    [][ls_games' # ls_games =>
          /\ initialized
          /\ ~init_pending
          /\ session_id # ""
          /\ ls_session_id = Some(session_id)
          /\ ls_games' = [ls_games EXCEPT
                            ![session_id] = Some(SerializeState(CurrentState))]]_vars

\* after a reload the auto-save effect has run first, initialisation is still
\* to come, and the record of a game at the voting screen is still stored
C16_Witness ==
    /\ init_pending
    /\ ~save_pending
    /\ ~initialized
    /\ storage_ok
    /\ ls_session_id # None
    /\ ls_games[ls_session_id[1]] # None
    /\ StateOk(ls_games[ls_session_id[1]][1])
    /\ DeserializeState(ls_games[ls_session_id[1]][1])[1].game_screen = Voting

\* the fields of GameState other than the session id
GameFields(state) ==
    <<state.game_screen, state.players, state.player_count_input,
      state.player_names, state.round_number, state.cards, state.imposter_index>>

\* C17: a game is resumed after a reload.  With working storage, (a) at a
\* reload the stored record of the session is the state just before it,
\* (b) initialisation sets phase, players, playerCountInput, playerNames,
\* roundNumber, cards and imposterIndex to the stored record, and (c) the card
\* effect that runs with non-empty cards leaves cards and imposterIndex alone.
C17_ResumeAfterReload ==
    /\ [][(storage_ok /\ ~init_pending /\ init_pending') =>
             /\ ls_session_id = Some(session_id)
             /\ load_game_state(ls_games', session_id) = Some(CurrentState)]_vars
    /\ [][(storage_ok /\ init_pending /\ ~init_pending' /\ ls_session_id # None
             /\ load_game_state(ls_games, ls_session_id[1]) # None) =>
             GameFields(CurrentState') =
                GameFields(load_game_state(ls_games, ls_session_id[1])[1])]_vars
    /\ [][(effect_pending /\ ~effect_pending' /\ cards # <<>>) =>
             UNCHANGED <<cards, imposter_index>>]_vars

\* C18: for every reachable GameState s, loading the record that
\* save_game_state(s) writes under s.sessionId yields a state equal to s in
\* every field.
C18_RoundTrip ==
    /\ DeserializeState(SerializeState(CurrentState)) = Some(CurrentState)
    /\ (storage_ok /\ session_id # "") =>
          load_game_state(save_game_state(ls_games, CurrentState), session_id)
             = Some(CurrentState)

\* the stored record is that of an elimination screen, with cards and scores
C18_Witness ==
    /\ storage_ok
    /\ session_id # ""
    /\ game_screen.kind = "Elimination"
    /\ cards # <<>>
    /\ \E j \in 1..Len(players) : players[j].score > 0
    /\ ls_games[session_id] = Some(SerializeState(CurrentState))

\* C19: session id resolution at startup returns the stored id when there is
\* one, and otherwise generates an id, stores it and uses it; a stored id is
\* never replaced, so with working storage every later start uses the same id.
C19_SessionIdResolved ==
    /\ [][(init_pending /\ ~init_pending') =>
             IF storage_ok /\ ls_session_id # None
             THEN session_id' = ls_session_id[1] /\ UNCHANGED ls_session_id
             ELSE /\ session_id' \in SessionIds
                  /\ ls_session_id' = IF storage_ok THEN Some(session_id')
                                      ELSE None]_vars
    /\ [][ls_session_id # None => UNCHANGED ls_session_id]_vars

\* a game under an id the program generated is resumed at the second seat
\* after a reload, under the same id
C19_Witness ==
    /\ initialized
    /\ storage_ok
    /\ session_id = "id-2"
    /\ ls_session_id = Some(session_id)
    /\ game_screen = CardView(1)
    /\ effect_pending
    /\ cards # <<>>

\* no storage, no stored id, no record for the stored id, or a record that
\* cannot be deserialized
NothingToLoad ==
    \/ ~storage_ok
    \/ ls_session_id = None
    \/ ls_games[ls_session_id[1]] = None
    \/ ls_games[ls_session_id[1]][1] \in CorruptRecords

\* C20: when no record exists for the session, storage is unavailable or the
\* stored record fails to deserialize, startup completes without error with
\* the fresh default state (Setup, no players, playerCountInput "3",
\* roundNumber 1, no cards); afterwards the session is initialised with a
\* non-empty id, so saves go on, and the next save stores the current state.
C20_StartFresh ==
    /\ [][(init_pending /\ ~init_pending' /\ NothingToLoad) =>
             /\ game_screen' = Setup
             /\ players' = <<>>
             /\ player_count_input' = <<"3">>
             /\ round_number' = 1
             /\ cards' = <<>>
             /\ ~panicked'
             /\ initialized'
             /\ save_pending']_vars
    /\ [](~init_pending => SaveReady)
    /\ [][(save_pending /\ ~save_pending' /\ ~init_pending /\ storage_ok) =>
             ls_games'[session_id] = Some(SerializeState(CurrentState))]_vars

\* startup has finished with the default state while the stored record of the
\* session is still the text that is no JSON
C20_Witness ==
    /\ ~init_pending
    /\ initialized
    /\ ~panicked
    /\ storage_ok
    /\ ls_games[session_id] = Some(NotJson)
    /\ game_screen = Setup
    /\ players = <<>>
    /\ round_number = 1

----------------------------------------------------------------------------
(* The setup screen on its own, with count texts of every kind *)

\* count texts with what str::parse::<usize> makes of them on wasm32: whether
\* the text parses, and the value if it does (the value of the last one is
\* usize::MAX, written as any number above MaxPlayers)
CountCases ==
    { [text |-> <<"a", "b", "c">>, parses |-> FALSE, value |-> 0],
      [text |-> <<>>, parses |-> FALSE, value |-> 0],
      [text |-> <<"-", "5">>, parses |-> FALSE, value |-> 0],
      [text |-> <<"3", ".", "5">>, parses |-> FALSE, value |-> 0],
      [text |-> <<" ", "5">>, parses |-> FALSE, value |-> 0],
      [text |-> <<"1", "e", "1">>, parses |-> FALSE, value |-> 0],
      [text |-> <<"+">>, parses |-> FALSE, value |-> 0],
      [text |-> <<"4", "2", "9", "4", "9", "6", "7", "2", "9", "6">>,
       parses |-> FALSE, value |-> 0],
      [text |-> <<"0">>, parses |-> TRUE, value |-> 0],
      [text |-> <<"1">>, parses |-> TRUE, value |-> 1],
      [text |-> <<"3">>, parses |-> TRUE, value |-> 3],
      [text |-> <<"+", "7">>, parses |-> TRUE, value |-> 7],
      [text |-> <<"0", "0", "9">>, parses |-> TRUE, value |-> 9],
      [text |-> <<"1", "0">>, parses |-> TRUE, value |-> 10],
      [text |-> <<"1", "1">>, parses |-> TRUE, value |-> 11],
      [text |-> <<"1", "5">>, parses |-> TRUE, value |-> 15],
      [text |-> <<"4", "2", "9", "4", "9", "6", "7", "2", "9", "5">>,
       parses |-> TRUE, value |-> 4294] }

NextCount ==
    \/ \E c \in CountCases : SetPlayerCount(c.text) /\ UNCHANGED pvars
    \/ \E i \in 0..(MaxPlayers - 1) : SetPlayerName(i, SlotName(i)) /\ UNCHANGED pvars

SpecCount == Init /\ [][NextCount]_vars

\* C21: the effective player count of the setup screen (the number of name
\* slots it keeps) is 3 when playerCountInput does not parse as a
\* non-negative integer, and otherwise the parsed value clamped to 3..10; it
\* lies in 3..10 for every text.
C21_EffectiveCount ==
    game_screen = Setup =>
        /\ Len(player_names) \in 3..10
        /\ \A c \in CountCases :
              c.text = player_count_input =>
                 Len(player_names) =
                    IF ~c.parses THEN 3
                    ELSE IF c.value < 3 THEN 3
                    ELSE IF c.value > 10 THEN 10
                    ELSE c.value

\* "15" is typed: ten name slots
C21_Witness ==
    /\ game_screen = Setup
    /\ player_count_input = <<"1", "5">>
    /\ Len(player_names) = 10

----------------------------------------------------------------------------
(* The game with a randomness source that is unavailable *)

\* buf_on_failure of a buffer that is not zeroed before the call
buf_not_zeroed == <<255, 255, 255, 255, 255, 255, 255, 255>>

\* let mut buf = [0u8; 8]; let _ = getrandom(&mut buf); with getrandom
\* returning Err: the error is dropped and the buffer is as initialised
buf_on_failure == <<0, 0, 0, 0, 0, 0, 0, 0>>

NoRandomCountTexts == { <<"3">>, <<"4">> }

NextNoRandom ==
    \/ \E text \in NoRandomCountTexts : SetPlayerCount(text) /\ UNCHANGED pvars
    \/ \E i \in 0..(MaxPlayers - 1) : SetPlayerName(i, SlotName(i)) /\ UNCHANGED pvars
    \/ StartGame /\ UNCHANGED pvars
    \/ CardViewEffectFrom({buf_on_failure}, {buf_on_failure}) /\ UNCHANGED pvars
    \/ RevealCard /\ UNCHANGED pvars
    \/ NextPlayer /\ UNCHANGED pvars
    \/ ProceedToVoting /\ UNCHANGED pvars
    \/ \E player_idx \in 0..(MaxPlayers - 1) : Evict(player_idx) /\ UNCHANGED pvars
    \/ ConfirmElimination /\ UNCHANGED pvars
    \/ ViewScores /\ UNCHANGED pvars
    \/ NewGameFromRoundEnd /\ UNCHANGED pvars
    \/ NextRound /\ UNCHANGED pvars
    \/ NewGameFromScore /\ UNCHANGED pvars

SpecNoRandom == Init /\ [][NextNoRandom]_vars

\* C22: when the randomness source is unavailable generate_cards does not
\* crash: both draws are zero, so the card effect that generates stores one
\* card per player from word pair 0 with the imposter at seat 0, and nothing
\* panics then or later.
C22_NoRandomness ==
    /\ [](~panicked)
    /\ [][(effect_pending /\ ~effect_pending' /\ cards = <<>> /\ players # <<>>) =>
             /\ imposter_index' = 0
             /\ Len(cards') = Len(players)
             /\ \A j \in 1..Len(players) :
                   cards'[j] = IF j = 1
                               THEN GameCard("Imposter", word_pairs[1][2])
                               ELSE GameCard("Normal", word_pairs[1][1])
             /\ UNCHANGED <<game_screen, players, round_number>>]_vars

\* a second round of four players, dealt without randomness, is at its vote
C22_Witness ==
    /\ game_screen = Voting
    /\ round_number = 2
    /\ Len(players) = 4
    /\ Len(cards) = 4
    /\ imposter_index = 0
    /\ cards[1].card_type = "Imposter"
    /\ \E j \in 1..Len(players) : players[j].score > 0

----------------------------------------------------------------------------
(* Claims about scores and rounds *)

ActiveCount(player_list) == Cardinality(active_indices(player_list))

\* C24: every round terminates.  In a Voting state some seat can be evicted
\* and at least 3 players are active; each Continue of the elimination screen
\* either reaches RoundEnd or returns to Voting with one active player fewer
\* (so RoundEnd comes after at most players.length - 2 of them); RoundEnd has
\* imposterFound exactly when the evicted seat is imposterIndex, and
\* otherwise at most 2 players are active.
C24_RoundTerminates ==
    /\ [](game_screen = Voting => ActiveCount(players) >= 3)
    /\ [][(game_screen.kind = "Elimination" /\ ~init_pending' /\ vars' # vars) =>
             \/ /\ game_screen' = Voting
                /\ ActiveCount(players') = ActiveCount(players) - 1
             \/ /\ game_screen'.kind = "RoundEnd"
                /\ game_screen'.imposter_found =
                      (game_screen.eliminated_index = imposter_index)
                /\ game_screen'.imposter_found \/ ActiveCount(players') <= 2]_vars

\* C25: in every reachable Voting state at least 3 players are not
\* eliminated, and the player at imposterIndex is one of them.
C25_ImposterInPlay ==
    game_screen = Voting =>
        /\ ActiveCount(players) >= 3
        /\ imposter_index \in active_indices(players)

\* the players still in the round, by position in the list
StillIn(player_list) ==
    { j \in 1..Len(player_list) : ~player_list[j].is_eliminated }

\* C26: only seats that are not eliminated are evicted.  In every Elimination
\* (k, _) state whose Continue has not run, k is a seat and players[k] is not
\* eliminated; Continue marks exactly seat k, so the number of players still
\* in the round drops by exactly 1 and nobody is eliminated twice.
C26_EvictActiveOnly ==
    /\ []((game_screen.kind = "Elimination" /\ ~panicked) =>
            /\ game_screen.eliminated_index < Len(players)
            /\ game_screen.eliminated_index + 1 \in StillIn(players))
    /\ [][(game_screen.kind = "Elimination" /\ vars' # vars) =>
             /\ Len(players') = Len(players)
             /\ StillIn(players') =
                   StillIn(players) \ {game_screen.eliminated_index + 1}
             /\ Cardinality(StillIn(players')) = Cardinality(StillIn(players)) - 1]_vars

\* the second eviction of a round: one player is out, another seat is chosen
C26_Witness ==
    /\ game_screen.kind = "Elimination"
    /\ ~panicked
    /\ Cardinality(StillIn(players)) = Len(players) - 1
    /\ game_screen.eliminated_index + 1 \in StillIn(players)

\* C27: card viewing never gets stuck.  A CardView(i) state with
\* i < players.length in which seat i has no card ("Preparing cards...") is
\* never permanent: it has a step to take (the card effect, which makes the
\* card).  A state of that kind without any step stays as it is for ever.
C27_NeverStuck ==
    (/\ game_screen.kind = "CardView"
     /\ game_screen.current_player_index < Len(players)
     /\ ~CardShown(game_screen.current_player_index))
       => ENABLED Next

====
